---- MODULE Spec2Model ----
(***************************************************************************)
(* The persistence layer of the budgeting application (backend/database)   *)
(* and the streak endpoint built on it.                                    *)
(*                                                                         *)
(* Dates are calendar-day numbers; a month of the model calendar has       *)
(* MonthLen days, so that month boundaries occur within MaxDay days.  A    *)
(* transaction timestamp is a day plus the part of the day it falls in:    *)
(* "day" is 00:00:00.000 .. 23:59:59.000, "lastSecond" is the rest of the  *)
(* day, which checkDailyBudgetAdherence's endOfDay (23:59:59, 0 ms) leaves *)
(* out of its query.                                                       *)
(*                                                                         *)
(* Every await of a handler is a separate step, so that requests           *)
(* interleave the way the event loop lets them.  Floating point is         *)
(* abstracted to exact arithmetic; createdAt/updatedAt, category and       *)
(* description fields, which no step below reads, are left out.  A stored  *)
(* lastChecked is a local midnight, so reading it back and truncating it   *)
(* to its day (lastCheckedDate) gives the same day number.                 *)
(*                                                                         *)
(* Spec lets the streak requests of a user overlap; SpecSerial starts one  *)
(* only when no other request for that user is under way, which is the     *)
(* setting of the properties stated for a sequence of check() calls.       *)
(* SpecUsers gives both users a budget and one request each.  SpecSave is  *)
(* saveBudget under overlapping requests on an empty store.  SpecCalc      *)
(* applies calculateBudget to a declaration drawn from Declarations, and   *)
(* SpecAnalyze applies calculateCategorySpending to its result and a       *)
(* transaction list; there money is counted in cents.                      *)
(***************************************************************************)
EXTENDS Integers, Sequences, FiniteSets, Bags, TLC

\* ----------------------------------------------------------------- bounds
MaxDay == 4
MonthLen == 2
MaxTx == 1
MaxSubs == 2
MaxTxList == 2

Users == {"u1", "u2"}
Procs == {"p1", "p2"}
Incomes == {30, 60}
AmountInputs == {0, 1, 2}
Slots == {"day", "lastSecond"}

\* the divisor of checkDailyBudgetAdherence: monthlyIncome / 30
DaysDivisor == 30

VARIABLES
  clock,      \* the server's calendar day (new Date())
  budgets,    \* the budgets collection, in insertion order
  txns,       \* the transactions collection (a bag of documents)
  pc,         \* per request: where checkAndUpdateStreak stands
  user,       \* per request: the userId parameter
  today,      \* per request: const today
  streak,     \* per request: budget.streak of the document getBudget returned
  lastCheckedDate, \* per request: const lastCheckedDate
  income,     \* per request: budget.monthlyIncome read by checkDailyBudgetAdherence
  result,     \* per request: what the route answers
  firstOfDay, \* history: per user, the first StreakState answered on a calendar day
  savePc,     \* per request: where saveBudget stands
  docForWrite,    \* per request: const docForWrite
  existingBudget, \* per request: whether findOne returned a document
  lastSaved,  \* history: per user, the declaration of the save that returned last
  calcPc,     \* which of calculateBudget and calculateCategorySpending has returned
  input,      \* the BudgetInput handed to calculateBudget
  budgetResult,   \* the BudgetResult it returned
  transactions,   \* the transaction list handed to calculateCategorySpending
  analysis    \* the SpendingAnalysis it returned

saveVars == <<savePc, docForWrite, existingBudget, lastSaved>>
calcVars == <<calcPc, input, budgetResult, transactions, analysis>>

vars == <<clock, budgets, txns, pc, user, today, streak, lastCheckedDate, income,
          result, firstOfDay, saveVars, calcVars>>

\* ------------------------------------------------------------------ dates
\* new Date(now.getFullYear(), now.getMonth(), 1)
FirstOfMonth(d) == d - ((d - 1) % MonthLen)

\* ------------------------------------------------------------- documents
\* UserBudget.streak?: absent, or the four fields
NoStreak == [has |-> FALSE, currentStreak |-> 0, longestStreak |-> 0,
             lastChecked |-> 0, monthlyResetDate |-> 0]

MkStreak(c, l, lc, mrd) == [has |-> TRUE, currentStreak |-> c, longestStreak |-> l,
                            lastChecked |-> lc, monthlyResetDate |-> mrd]

\* the record checkAndUpdateStreak builds when budget.streak is missing
InitStreak(now) == MkStreak(0, 0, now, FirstOfMonth(now))

\* BudgetInput['categories']
Categories(r, f, b, s, i, w) ==
  [rent |-> r, food |-> f, bills |-> b, savings |-> s, investments |-> i, wants |-> w]

\* the categories the basic test saves
TestCategories == Categories(30, 15, 10, 20, 10, 15)

BudgetDocOf(u, inc, cats, s) ==
  [userId |-> u, monthlyIncome |-> inc, categories |-> cats, streak |-> s]

BudgetDoc(u, inc, s) == BudgetDocOf(u, inc, TestCategories, s)

\* collection.findOne({ userId }): the index of the first match, 0 when none
RECURSIVE FindFrom(_, _, _)
FindFrom(coll, u, i) ==
  IF i > Len(coll) THEN 0
  ELSE IF coll[i].userId = u THEN i ELSE FindFrom(coll, u, i + 1)

FindOne(coll, u) == FindFrom(coll, u, 1)

\* getBudget(userId): the document, or null
getBudgetFound(u) == FindOne(budgets, u) # 0
getBudget(u) == budgets[FindOne(budgets, u)]

\* collection.updateOne({ userId }, { $set: { streak } }): first match only
UpdateOneStreak(coll, u, s) ==
  IF FindOne(coll, u) = 0 THEN coll
  ELSE [coll EXCEPT ![FindOne(coll, u)].streak = s]

\* ---------------------------------------------------------- transactions
Tx(u, amt, d, sl) == [userId |-> u, amount |-> amt, day |-> d, slot |-> sl]

\* (variant: the query leaves out the userId filter)
getTransactions_AnyUser(u, d) ==
  {t \in BagToSet(txns) : t.day = d /\ t.slot = "day"}

\* getTransactions(userId, startOfDay, endOfDay) for the day d:
\* date >= 00:00:00 and date <= 23:59:59.000 of d
getTransactions(u, d) ==
  {t \in BagToSet(txns) : t.userId = u /\ t.day = d /\ t.slot = "day"}

\* transactions.reduce((sum, t) => sum + t.amount, 0)
RECURSIVE SumAmounts(_, _)
SumAmounts(S, bag) ==
  IF S = {} THEN 0
  ELSE LET t == CHOOSE x \in S : TRUE
       IN  t.amount * CopiesIn(t, bag) + SumAmounts(S \ {t}, bag)

totalSpent(u, d) == SumAmounts(getTransactions(u, d), txns)

\* (variant: the comparison is strict)
WithinBudget_Strict(spent, monthlyIncome) == spent * DaysDivisor < monthlyIncome

\* return totalSpent <= dailyBudget, with dailyBudget = monthlyIncome / 30
WithinBudget(spent, monthlyIncome) == spent * DaysDivisor <= monthlyIncome

\* ------------------------------------------------- checkAndUpdateStreak
\* (variant: the same day passes the test)
NewDay_SameDay(t, lcd) == t >= lcd

\* if (today > lastCheckedDate)
NewDay(t, lcd) == t > lcd

\* (variant: a new month also zeroes the streak)
MonthStep_Reset(s, now) ==
  IF FirstOfMonth(now) > s.monthlyResetDate
  THEN [s EXCEPT !.monthlyResetDate = FirstOfMonth(now), !.currentStreak = 0]
  ELSE s

\* if (currentMonthStart > monthlyResetDate) budget.streak.monthlyResetDate = ...
MonthStep(s, now) ==
  IF FirstOfMonth(now) > s.monthlyResetDate
  THEN [s EXCEPT !.monthlyResetDate = FirstOfMonth(now)]
  ELSE s

\* (variant: the personal best is not raised)
IncrementStreak_NoBest(s) == [s EXCEPT !.currentStreak = s.currentStreak + 1]

\* currentStreak += 1; if (currentStreak > longestStreak) longestStreak = currentStreak
IncrementStreak(s) ==
  LET c == s.currentStreak + 1
  IN  [s EXCEPT !.currentStreak = c,
                !.longestStreak = IF c > s.longestStreak THEN c ELSE s.longestStreak]

\* (variant: the reset also clears the personal best)
ResetStreak_Best(s) == [s EXCEPT !.currentStreak = 0, !.longestStreak = 0]

\* budget.streak.currentStreak = 0
ResetStreak(s) == [s EXCEPT !.currentStreak = 0]

\* (variant: a failed day never zeroes the streak)
DayStep_NoGapReset(s, wasWithinBudget, lcd, t) ==
  LET s1 == IF wasWithinBudget THEN IncrementStreak(s) ELSE s
  IN  [s1 EXCEPT !.lastChecked = t]

\* (variant: a failed day always zeroes the streak)
DayStep_AlwaysReset(s, wasWithinBudget, lcd, t) ==
  LET s1 == IF wasWithinBudget THEN IncrementStreak(s) ELSE ResetStreak(s)
  IN  [s1 EXCEPT !.lastChecked = t]

\* the body of the new-day branch after checkDailyBudgetAdherence has answered
DayStep(s, wasWithinBudget, lcd, t) ==
  LET yesterday == t - 1
      s1 == IF wasWithinBudget THEN IncrementStreak(s)
            ELSE IF lcd < yesterday THEN ResetStreak(s)
            ELSE s
  IN  [s1 EXCEPT !.lastChecked = t]

\* what the route answers
Idle == [status |-> 0, details |-> "", streak |-> NoStreak]
Ok(s) == [status |-> 200, details |-> "", streak |-> s]
Failed(msg) == [status |-> 500, details |-> msg, streak |-> NoStreak]

\* a request that has answered keeps nothing but its answer
Finish(p, r) ==
  /\ pc' = [pc EXCEPT ![p] = "done"]
  /\ result' = [result EXCEPT ![p] = r]
  /\ streak' = [streak EXCEPT ![p] = NoStreak]
  /\ lastCheckedDate' = [lastCheckedDate EXCEPT ![p] = 0]
  /\ income' = [income EXCEPT ![p] = 0]

\* (variant: a default record is created and answered)
BudgetNotFound_Default(p) ==
  /\ Finish(p, Ok(InitStreak(clock)))
  /\ budgets' = Append(budgets, BudgetDoc(user'[p], 0, InitStreak(clock)))
  /\ UNCHANGED <<txns, today>>

\* throw new Error('Budget not found'): the route answers 500 with the message
BudgetNotFound(p) ==
  /\ Finish(p, Failed("Budget not found"))
  /\ UNCHANGED <<budgets, txns, today>>

\* GET /api/streak/check?userId=u: const budget = await getBudget(userId)
CheckGetBudget(p, u) ==
  /\ pc[p] = "idle"
  /\ user' = [user EXCEPT ![p] = u]
  /\ IF ~getBudgetFound(u)
     THEN BudgetNotFound(p)
     ELSE /\ pc' = [pc EXCEPT ![p] = "begin"]
          /\ streak' = [streak EXCEPT ![p] = getBudget(u).streak]
          /\ UNCHANGED <<budgets, txns, today, lastCheckedDate, income, result>>
  /\ UNCHANGED <<clock, firstOfDay>>
  /\ UNCHANGED <<saveVars, calcVars>>

\* from const now = new Date() to the test of today > lastCheckedDate
CheckBegin(p) ==
  /\ pc[p] = "begin"
  /\ LET now == clock
         s0  == IF streak[p].has THEN streak[p] ELSE InitStreak(now)
         lcd == s0.lastChecked
         s1  == MonthStep(s0, now)
     IN  /\ today' = [today EXCEPT ![p] = now]
         /\ IF NewDay(now, lcd)
            THEN /\ pc' = [pc EXCEPT ![p] = "adherenceBudget"]
                 /\ streak' = [streak EXCEPT ![p] = s1]
                 /\ lastCheckedDate' = [lastCheckedDate EXCEPT ![p] = lcd]
                 /\ UNCHANGED <<income, result>>
            ELSE Finish(p, Ok(s1))
  /\ UNCHANGED <<clock, budgets, txns, user, firstOfDay>>
  /\ UNCHANGED <<saveVars, calcVars>>

\* checkDailyBudgetAdherence: const budget = await getBudget(userId);
\* if (!budget) return false
AdherenceGetBudget(p) ==
  /\ pc[p] = "adherenceBudget"
  /\ IF getBudgetFound(user[p])
     THEN /\ pc' = [pc EXCEPT ![p] = "adherenceTx"]
          /\ income' = [income EXCEPT ![p] = getBudget(user[p]).monthlyIncome]
          /\ UNCHANGED streak
     ELSE /\ pc' = [pc EXCEPT ![p] = "update"]
          /\ streak' = [streak EXCEPT
                          ![p] = DayStep(streak[p], FALSE, lastCheckedDate[p], today[p])]
          /\ UNCHANGED income
  /\ UNCHANGED <<clock, budgets, txns, user, today, lastCheckedDate, result, firstOfDay>>
  /\ UNCHANGED <<saveVars, calcVars>>

\* checkDailyBudgetAdherence: await getTransactions(...) and the comparison,
\* then the new-day branch up to budget.streak.lastChecked = today
AdherenceGetTransactions(p) ==
  /\ pc[p] = "adherenceTx"
  /\ LET wasWithinBudget == WithinBudget(totalSpent(user[p], today[p] - 1), income[p])
     IN  streak' = [streak EXCEPT
                      ![p] = DayStep(streak[p], wasWithinBudget, lastCheckedDate[p], today[p])]
  /\ pc' = [pc EXCEPT ![p] = "update"]
  /\ UNCHANGED <<clock, budgets, txns, user, today, lastCheckedDate, income, result,
                 firstOfDay>>
  /\ UNCHANGED <<saveVars, calcVars>>

\* await collection.updateOne({ userId }, { $set: { streak: budget.streak, ... } })
UpdateOne(p) ==
  /\ pc[p] = "update"
  /\ budgets' = UpdateOneStreak(budgets, user[p], streak[p])
  /\ Finish(p, Ok(streak[p]))
  /\ UNCHANGED <<clock, txns, user, today, firstOfDay>>
  /\ UNCHANGED <<saveVars, calcVars>>

\* (variant: the fields are written one by one and the failure comes midway)
UpdateOneFails_Partial(p) ==
  /\ pc[p] = "update"
  /\ budgets' = UpdateOneStreak(budgets, user[p],
                   [getBudget(user[p]).streak EXCEPT
                      !.currentStreak = streak[p].currentStreak])
  /\ Finish(p, Failed("update failed"))
  /\ UNCHANGED <<clock, txns, user, today, firstOfDay>>
  /\ UNCHANGED <<saveVars, calcVars>>

\* the update is rejected: updateOne throws, the route answers 500
UpdateOneFails(p) ==
  /\ pc[p] = "update"
  /\ Finish(p, Failed("update failed"))
  /\ UNCHANGED <<clock, budgets, txns, user, today, firstOfDay>>
  /\ UNCHANGED <<saveVars, calcVars>>

\* a read (findOne / find) is rejected: the exception reaches the route
ReadFails(p) ==
  /\ pc[p] \in {"adherenceBudget", "adherenceTx"}
  /\ Finish(p, Failed("read failed"))
  /\ UNCHANGED <<clock, budgets, txns, user, today, firstOfDay>>
  /\ UNCHANGED <<saveVars, calcVars>>

\* NextResponse.json(...): the request is over
Respond(p) ==
  /\ pc[p] = "done"
  /\ firstOfDay' =
       IF result[p].status = 200 /\ firstOfDay[user[p]].day # today[p]
       THEN [firstOfDay EXCEPT ![user[p]] =
               [day |-> today[p], streak |-> result[p].streak,
                persisted |-> getBudget(user[p]).streak.has]]
       ELSE firstOfDay
  /\ pc' = [pc EXCEPT ![p] = "idle"]
  /\ result' = [result EXCEPT ![p] = Idle]
  /\ today' = [today EXCEPT ![p] = 0]
  /\ user' = [user EXCEPT ![p] = CHOOSE u \in Users : TRUE]
  /\ UNCHANGED <<clock, budgets, txns, streak, lastCheckedDate, income>>
  /\ UNCHANGED <<saveVars, calcVars>>

\* ---------------------------------------------------------- transactions
\* POST /api/transactions/add: 400 without amount, 404 without a budget,
\* else saveTransaction({ ..., amount: parseFloat(amount), date: new Date() })
AddTransaction(u, amount, sl) ==
  /\ amount # 0
  /\ getBudgetFound(u)
  /\ BagCardinality(txns) < MaxTx
  /\ txns' = txns (+) SetToBag({Tx(u, amount, clock, sl)})
  /\ UNCHANGED <<clock, budgets, pc, user, today, streak, lastCheckedDate, income,
                 result, firstOfDay>>
  /\ UNCHANGED <<saveVars, calcVars>>

\* POST /api/transactions/generate-sample: saveTransactionsBulk of purchases
\* whose dates are spread over the days up to now
GenerateSample(u, amount, d, sl) ==
  /\ getBudgetFound(u)
  /\ BagCardinality(txns) < MaxTx
  /\ txns' = txns (+) SetToBag({Tx(u, amount, d, sl)})
  /\ UNCHANGED <<clock, budgets, pc, user, today, streak, lastCheckedDate, income,
                 result, firstOfDay>>
  /\ UNCHANGED <<saveVars, calcVars>>

\* ------------------------------------------------------------------ time
Tick ==
  /\ clock < MaxDay
  /\ clock' = clock + 1
  /\ UNCHANGED <<budgets, txns, pc, user, today, streak, lastCheckedDate, income,
                 result, firstOfDay>>
  /\ UNCHANGED <<saveVars, calcVars>>

\* ------------------------------------------- values before any request
\* BudgetInput: money in cents, percentages in whole percents
BudgetInput(inc, cats, subs) ==
  [monthlyIncome |-> inc, categories |-> cats, wantsSubcategories |-> subs]

\* BudgetResult; errors is <<>> where the code leaves it undefined
BudgetResult(inc, total, un, cats, valid, errs) ==
  [monthlyIncome |-> inc, totalAllocated |-> total, unallocated |-> un,
   categories |-> cats, isValid |-> valid, errors |-> errs]

\* a number kept as the quotient num / den of two integers, den > 0
Quotient(n, d) == [num |-> n, den |-> d]

\* SpendingAnalysis
SpendingAnalysis(spent, budget, cats, over, used) ==
  [totalSpent |-> spent, totalBudget |-> budget, categories |-> cats,
   overBudgetCategories |-> over, percentageOfBudgetUsed |-> used]

NoInput == BudgetInput(0, Categories(0, 0, 0, 0, 0, 0), <<>>)
NoResult == BudgetResult(0, 0, 0, <<>>, FALSE, <<>>)
NoAnalysis == SpendingAnalysis(0, 0, <<>>, <<>>, Quotient(0, 1))

\* the argument of saveBudget as the routes build it (no streak field)
Declaration(u, inc, cats) == [userId |-> u, monthlyIncome |-> inc, categories |-> cats]
NoDeclaration == Declaration("", 0, Categories(0, 0, 0, 0, 0, 0))

\* no saveBudget call is under way
NoSaves ==
  /\ savePc = [p \in Procs |-> "idle"]
  /\ docForWrite = [p \in Procs |-> NoDeclaration]
  /\ existingBudget = [p \in Procs |-> FALSE]
  /\ lastSaved = [u \in Users |-> NoDeclaration]

\* nothing is handed to the calculator or the analyzer
NoCalculation ==
  /\ calcPc = "none"
  /\ input = NoInput
  /\ budgetResult = NoResult
  /\ transactions = <<>>
  /\ analysis = NoAnalysis

\* the requests of the streak route are idle
NoChecks ==
  /\ pc = [p \in Procs |-> "idle"]
  /\ user = [p \in Procs |-> CHOOSE u \in Users : TRUE]
  /\ today = [p \in Procs |-> 0]
  /\ streak = [p \in Procs |-> NoStreak]
  /\ lastCheckedDate = [p \in Procs |-> 0]
  /\ income = [p \in Procs |-> 0]
  /\ result = [p \in Procs |-> Idle]
  /\ firstOfDay = [u \in Users |-> [day |-> 0, streak |-> NoStreak, persisted |-> FALSE]]

\* ------------------------------------------------------------------ Init
\* The store outlives the server.  u1 has saved a budget, which either was
\* never given a streak record or carries the zero record of day 1; u2 has
\* saved none.
StartDocs(u) ==
  {<<BudgetDoc(u, inc, s)>> : inc \in Incomes, s \in {NoStreak, InitStreak(1)}}

Init ==
  /\ clock = 1
  /\ budgets \in StartDocs("u1")
  /\ txns = EmptyBag
  /\ NoChecks
  /\ NoSaves
  /\ NoCalculation

\* no other request for the same user is under way
Alone(p, u) == \A q \in Procs \ {p} : pc[q] = "idle" \/ user[q] # u

Steps ==
  \/ \E p \in Procs : CheckBegin(p)
  \/ \E p \in Procs : AdherenceGetBudget(p)
  \/ \E p \in Procs : AdherenceGetTransactions(p)
  \/ \E p \in Procs : UpdateOne(p)
  \/ \E p \in Procs : UpdateOneFails(p)
  \/ \E p \in Procs : ReadFails(p)
  \/ \E p \in Procs : Respond(p)
  \/ \E u \in Users, a \in AmountInputs, sl \in Slots : AddTransaction(u, a, sl)
  \/ \E u \in Users, a \in AmountInputs \ {0}, d \in 1..clock, sl \in Slots :
       GenerateSample(u, a, d, sl)
  \/ Tick

\* requests overlap freely
Next ==
  \/ \E p \in Procs, u \in Users : CheckGetBudget(p, u)
  \/ Steps

Spec == Init /\ [][Next]_vars

\* the streak checks of one user come one after the other
NextSerial ==
  \/ \E p \in Procs, u \in Users : Alone(p, u) /\ CheckGetBudget(p, u)
  \/ Steps

SpecSerial == Init /\ [][NextSerial]_vars

\* ------------------------------------------------- two users with budgets
\* both users have saved a budget; each has one browser tab, so that the
\* requests of the two users interleave but those of one user do not
InitUsers ==
  /\ clock = 1
  /\ budgets = <<BudgetDoc("u1", 30, InitStreak(1)), BudgetDoc("u2", 60, InitStreak(1))>>
  /\ txns = EmptyBag
  /\ NoChecks
  /\ NoSaves
  /\ NoCalculation

Serves(p, u) == (p = "p1") <=> (u = "u1")

NextUsers ==
  \/ \E p \in Procs, u \in Users : Serves(p, u) /\ CheckGetBudget(p, u)
  \/ \E p \in Procs : CheckBegin(p)
  \/ \E p \in Procs : AdherenceGetBudget(p)
  \/ \E p \in Procs : AdherenceGetTransactions(p)
  \/ \E p \in Procs : UpdateOne(p)
  \/ \E p \in Procs : Respond(p)
  \/ \E u \in Users : AddTransaction(u, 2, "day")
  \/ Tick

SpecUsers == InitUsers /\ [][NextUsers]_vars

\* ------------------------------------------------------------ saveBudget
\* the categories a save request may carry
SaveCategories == {TestCategories, Categories(50, 0, 0, 0, 0, 50)}

\* (variant: the stored document is replaced as a whole)
UpdateOneBudget_Replace(coll, d) ==
  IF FindOne(coll, d.userId) = 0 THEN coll
  ELSE [coll EXCEPT ![FindOne(coll, d.userId)] =
          BudgetDocOf(d.userId, d.monthlyIncome, d.categories, NoStreak)]

\* collection.updateOne({ userId }, { $set: docForWrite }): first match only;
\* the fields of docForWrite replace the stored ones, streak is not among them
UpdateOneBudget(coll, d) ==
  IF FindOne(coll, d.userId) = 0 THEN coll
  ELSE [coll EXCEPT ![FindOne(coll, d.userId)] =
          BudgetDocOf(d.userId, d.monthlyIncome, d.categories, @.streak)]

\* collection.insertOne({ ...docForWrite, createdAt })
InsertOneBudget(coll, d) ==
  Append(coll, BudgetDocOf(d.userId, d.monthlyIncome, d.categories, NoStreak))

\* PUT /api/budget/update, POST /api/budget/save: saveBudget up to
\* const existingBudget = await collection.findOne({ userId })
SaveFindOne(p, u, inc, cats) ==
  /\ savePc[p] = "idle"
  /\ savePc' = [savePc EXCEPT ![p] = "write"]
  /\ docForWrite' = [docForWrite EXCEPT ![p] = Declaration(u, inc, cats)]
  /\ existingBudget' = [existingBudget EXCEPT ![p] = FindOne(budgets, u) # 0]
  /\ UNCHANGED <<clock, budgets, txns, pc, user, today, streak, lastCheckedDate,
                 income, result, firstOfDay, lastSaved, calcVars>>

\* if (existingBudget) await updateOne(...) else await insertOne(...); return
SaveWrite(p) ==
  /\ savePc[p] = "write"
  /\ budgets' = IF existingBudget[p] THEN UpdateOneBudget(budgets, docForWrite[p])
                ELSE InsertOneBudget(budgets, docForWrite[p])
  /\ lastSaved' = [lastSaved EXCEPT ![docForWrite[p].userId] = docForWrite[p]]
  /\ savePc' = [savePc EXCEPT ![p] = "idle"]
  /\ docForWrite' = [docForWrite EXCEPT ![p] = NoDeclaration]
  /\ existingBudget' = [existingBudget EXCEPT ![p] = FALSE]
  /\ UNCHANGED <<clock, txns, pc, user, today, streak, lastCheckedDate, income,
                 result, firstOfDay, calcVars>>

\* an empty store; save requests overlap freely
InitSave ==
  /\ clock = 1
  /\ budgets = <<>>
  /\ txns = EmptyBag
  /\ NoChecks
  /\ NoSaves
  /\ NoCalculation

NextSave ==
  \/ \E p \in Procs, u \in Users, inc \in Incomes, cats \in SaveCategories :
       SaveFindOne(p, u, inc, cats)
  \/ \E p \in Procs : SaveWrite(p)

SpecSave == InitSave /\ [][NextSave]_vars

\* ------------------------------------------------------ budgetCalculator
\* Money is counted in cents and percentages in whole percents, so that
\* (x).toFixed(2) is a rounding to a whole number of cents.
CategoryKeys == <<"rent", "food", "bills", "savings", "investments", "wants">>
CategoryNames == <<"Rent/Mortgage", "Food", "Bills", "Savings", "Investments", "Wants">>

\* BudgetSubcategory of the input, and of the result (with its amount)
Subcategory(name, pct) == [name |-> name, percentage |-> pct]
SubcategoryAmount(sub, amt) ==
  [name |-> sub.name, percentage |-> sub.percentage, amount |-> amt]

\* BudgetCategory of the result; subcategories is <<>> where the code has none
BudgetCategory(name, pct, amt, subs) ==
  [name |-> name, percentage |-> pct, amount |-> amt, subcategories |-> subs]

\* an error message: the template literal, and the name or the number the
\* code interpolates into it
Message(text, subject, number) == [text |-> text, subject |-> subject, number |-> number]

\* name.trim(), on the names of SubInputs
Trim(name) == IF name = " " THEN "" ELSE name

\* (variant: the digits after the second decimal are cut off)
round2_Truncate(n, d) == IF n >= 0 THEN n \div d ELSE -((-n) \div d)

\* parseFloat((n / d).toFixed(2)) in cents: the nearest whole number, a half
\* going away from zero
round2(n, d) ==
  IF n >= 0 THEN (2 * n + d) \div (2 * d) ELSE -((2 * (-n) + d) \div (2 * d))

\* Object.entries(categories).forEach: the messages of the keys from i on
RECURSIVE CategoryErrors(_, _)
CategoryErrors(categories, i) ==
  IF i > Len(CategoryKeys) THEN <<>>
  ELSE LET key == CategoryKeys[i]
           value == categories[key]
       IN  (IF value < 0 THEN <<Message("{key} percentage cannot be negative", key, 0)>>
            ELSE <<>>)
           \o (IF value > 100
               THEN <<Message("{key} percentage cannot exceed 100%", key, 0)>>
               ELSE <<>>)
           \o CategoryErrors(categories, i + 1)

TotalPercentage(categories) ==
  categories.rent + categories.food + categories.bills + categories.savings
    + categories.investments + categories.wants

\* (variant: the total is not looked at)
validateBudgetPercentages_NoTotal(categories) ==
  LET errors == CategoryErrors(categories, 1)
  IN  [isValid |-> Len(errors) = 0, totalPercentage |-> TotalPercentage(categories),
       errors |-> errors]

validateBudgetPercentages(categories) ==
  LET totalPercentage == TotalPercentage(categories)
      errors ==
        (IF totalPercentage > 100
         THEN <<Message("Total percentage ({n}%) exceeds 100%", "", totalPercentage)>>
         ELSE <<>>)
        \o (IF totalPercentage < 0
            THEN <<Message("Total percentage cannot be negative", "", 0)>>
            ELSE <<>>)
        \o CategoryErrors(categories, 1)
  IN  [isValid |-> Len(errors) = 0, totalPercentage |-> totalPercentage,
       errors |-> errors]

\* subcategories.reduce((sum, sub) => sum + sub.percentage, 0), from i on
RECURSIVE SumPercentages(_, _)
SumPercentages(subcategories, i) ==
  IF i > Len(subcategories) THEN 0
  ELSE subcategories[i].percentage + SumPercentages(subcategories, i + 1)

\* subcategories.forEach((sub, index) => ...): index is i - 1
RECURSIVE SubcategoryErrors(_, _)
SubcategoryErrors(subcategories, i) ==
  IF i > Len(subcategories) THEN <<>>
  ELSE LET sub == subcategories[i]
       IN  (IF sub.percentage < 0
            THEN <<Message("Subcategory \"{name}\" has negative percentage", sub.name, 0)>>
            ELSE <<>>)
           \o (IF sub.percentage > 100
               THEN <<Message("Subcategory \"{name}\" percentage exceeds 100%", sub.name, 0)>>
               ELSE <<>>)
           \o (IF sub.name = "" \/ Trim(sub.name) = ""
               THEN <<Message("Subcategory at index {n} has no name", "", i - 1)>>
               ELSE <<>>)
           \o SubcategoryErrors(subcategories, i + 1)

validateWantsSubcategories(subcategories) ==
  LET totalPercentage == SumPercentages(subcategories, 1)
      errors ==
        (IF totalPercentage > 100
         THEN <<Message("Wants subcategories total ({n}%) exceeds 100%", "", totalPercentage)>>
         ELSE <<>>)
        \o SubcategoryErrors(subcategories, 1)
  IN  [isValid |-> Len(errors) = 0, totalPercentage |-> totalPercentage,
       errors |-> errors]

\* (variant: the subcategory amounts are cut off below the cent)
calculateSubcategories_Floor(parentAmount, subcategories) ==
  [i \in 1..Len(subcategories) |->
     SubcategoryAmount(subcategories[i],
                       (parentAmount * subcategories[i].percentage) \div 100)]

calculateSubcategories(parentAmount, subcategories) ==
  [i \in 1..Len(subcategories) |->
     SubcategoryAmount(subcategories[i],
                       round2(parentAmount * subcategories[i].percentage, 100))]

\* if (input.monthlyIncome <= 0) errors.push(...)
IncomeErrors(in) ==
  IF in.monthlyIncome <= 0
  THEN <<Message("Monthly income must be greater than 0", "", 0)>>
  ELSE <<>>

\* errors.push(...wantsValidation.errors) when subcategories are provided
WantsErrors(in) ==
  IF Len(in.wantsSubcategories) > 0
  THEN validateWantsSubcategories(in.wantsSubcategories).errors
  ELSE <<>>

\* (variant: the first violated rule ends the validation)
ValidationErrors_FirstOnly(in) ==
  IF IncomeErrors(in) # <<>> THEN IncomeErrors(in)
  ELSE IF validateBudgetPercentages(in.categories).errors # <<>>
       THEN validateBudgetPercentages(in.categories).errors
       ELSE WantsErrors(in)

\* const errors of calculateBudget once the three validations have run
ValidationErrors(in) ==
  IncomeErrors(in) \o validateBudgetPercentages(in.categories).errors \o WantsErrors(in)

\* const categories: the five literals and the pushed wantsCategory
AllocatedCategories(in) ==
  [i \in 1..Len(CategoryKeys) |->
     LET pct == in.categories[CategoryKeys[i]]
         amt == round2(in.monthlyIncome * pct, 100)
     IN  BudgetCategory(CategoryNames[i], pct, amt,
           IF CategoryKeys[i] = "wants" /\ Len(in.wantsSubcategories) > 0
           THEN calculateSubcategories(amt, in.wantsSubcategories)
           ELSE <<>>)]

\* categories.reduce((sum, cat) => sum + (cat.amount || 0), 0), from i on
RECURSIVE SumCategoryAmounts(_, _)
SumCategoryAmounts(categories, i) ==
  IF i > Len(categories) THEN 0
  ELSE categories[i].amount + SumCategoryAmounts(categories, i + 1)

\* (variant: the pushed wants category is left out of the sum)
TotalAllocated_WithoutWants(categories) ==
  round2(SumCategoryAmounts(SubSeq(categories, 1, Len(categories) - 1), 1), 1)

\* const totalAllocated
TotalAllocated(categories) == round2(SumCategoryAmounts(categories, 1), 1)

\* (variant: the amounts are returned next to the errors)
InvalidResult_Partial(in, errors) ==
  BudgetResult(in.monthlyIncome, TotalAllocated(AllocatedCategories(in)), 0,
               AllocatedCategories(in), FALSE, errors)

\* the early return of a failed validation
InvalidResult(in, errors) == BudgetResult(in.monthlyIncome, 0, 0, <<>>, FALSE, errors)

calculateBudget(in) ==
  LET errors == ValidationErrors(in)
  IN  IF Len(errors) > 0 THEN InvalidResult(in, errors)
      ELSE LET categories == AllocatedCategories(in)
               totalAllocated == TotalAllocated(categories)
               unallocated == round2(in.monthlyIncome - totalAllocated, 1)
           IN  BudgetResult(in.monthlyIncome, totalAllocated, unallocated, categories,
                            TRUE, <<>>)

\* POST /api/budget/calculate: const result = calculateBudget(body)
Calculate ==
  /\ calcPc = "none"
  /\ budgetResult' = calculateBudget(input)
  /\ calcPc' = "calculated"
  /\ UNCHANGED <<clock, budgets, txns, pc, user, today, streak, lastCheckedDate,
                 income, result, firstOfDay, saveVars, input, transactions, analysis>>

\* the declarations handed to the calculator
IncomeInputs == {-100, 0, 105}
PercentInputs == {-10, 0, 50, 110}
ValidPercentInputs == {0, 35}
SubInputs == {Subcategory("", 60), Subcategory(" ", 40), Subcategory("Gaming", -5),
              Subcategory("Gaming", 60), Subcategory("Dining Out", 120)}
SubLists == UNION {[1..n -> SubInputs] : n \in 0..MaxSubs}

\* the body of the basic test: 5000.00 a month
TestBasicInput ==
  BudgetInput(500000, TestCategories,
              <<Subcategory("Streaming Services", 20), Subcategory("Gaming", 30),
                Subcategory("Dining Out", 50)>>)

Declarations ==
  {BudgetInput(inc, Categories(r, f, b, sv, iv, w), subs) :
     inc \in IncomeInputs, r \in PercentInputs, f \in PercentInputs,
     b \in ValidPercentInputs, sv \in ValidPercentInputs, iv \in ValidPercentInputs,
     w \in PercentInputs, subs \in SubLists}
  \cup {TestBasicInput}

InitCalc ==
  /\ clock = 1
  /\ budgets = <<>>
  /\ txns = EmptyBag
  /\ NoChecks
  /\ NoSaves
  /\ calcPc = "none"
  /\ input \in Declarations
  /\ budgetResult = NoResult
  /\ transactions = <<>>
  /\ analysis = NoAnalysis

NextCalc == Calculate

SpecCalc == InitCalc /\ [][NextCalc]_vars

\* ------------------------------------------------------ spendingAnalyzer
\* BudgetTransaction, as far as calculateCategorySpending reads it
Transaction(category, amount) == [category |-> category, amount |-> amount]

\* CategorySpending
CategorySpending(name, spent, budget, remaining, used, status) ==
  [category |-> name, spent |-> spent, budget |-> budget, remaining |-> remaining,
   percentageUsed |-> used, status |-> status]

\* String.prototype.toLowerCase, on the strings that occur
toLowerCase(str) ==
  CASE str = "Rent" -> "rent"
    [] str = "FOOD" -> "food"
    [] str = "Unknown" -> "unknown"
    [] str = "Rent/Mortgage" -> "rent/mortgage"
    [] str = "Food" -> "food"
    [] str = "Bills" -> "bills"
    [] str = "Savings" -> "savings"
    [] str = "Investments" -> "investments"
    [] str = "Wants" -> "wants"
    [] OTHER -> str

\* str.replace(/\/.*$/, ''): the first slash and what follows it are removed
StripSuffix(str) == IF str = "rent/mortgage" THEN "rent" ELSE str

\* (variant: the wants bucket starts with a cent in it)
NoSpending_Carry ==
  [key \in {CategoryKeys[i] : i \in 1..Len(CategoryKeys)} |->
     IF key = "wants" THEN 1 ELSE 0]

\* const spendingByCategory before the loop
NoSpending == [key \in {CategoryKeys[i] : i \in 1..Len(CategoryKeys)} |-> 0]

\* (variant: a category that is not a key is skipped)
AddSpending_DropUnknown(spending, category, amount) ==
  IF category \in DOMAIN spending
  THEN [spending EXCEPT ![category] = @ + amount]
  ELSE spending

\* the body of transactions.forEach
AddSpending(spending, category, amount) ==
  IF category \in DOMAIN spending
  THEN [spending EXCEPT ![category] = @ + amount]
  ELSE [spending EXCEPT !.wants = @ + amount]

\* spendingByCategory after the first n transactions
RECURSIVE SpendingByCategory(_, _)
SpendingByCategory(txs, n) ==
  IF n = 0 THEN NoSpending
  ELSE AddSpending(SpendingByCategory(txs, n - 1), toLowerCase(txs[n].category),
                   txs[n].amount)

\* Object.values(spendingByCategory).reduce((sum, val) => sum + val, 0)
SumValues(spending) ==
  spending.rent + spending.food + spending.bills + spending.savings
    + spending.investments + spending.wants

\* (variant: the quotient is taken whatever the budget is)
PercentageUsed_Unguarded(spent, budget) == Quotient(spent * 100, budget)

\* budget > 0 ? (spent / budget) * 100 : 0
PercentageUsed(spent, budget) ==
  IF budget > 0 THEN Quotient(spent * 100, budget) ELSE Quotient(0, 1)

\* percentageUsed >= k
AtLeast(used, k) == used.num >= k * used.den

\* (variant: only more than 100 is over)
Status_StrictOver(used) ==
  IF used.num > 100 * used.den THEN "over"
  ELSE IF AtLeast(used, 95) THEN "at" ELSE "under"

\* let status
Status(used) ==
  IF AtLeast(used, 100) THEN "over"
  ELSE IF AtLeast(used, 95) THEN "at" ELSE "under"

\* the callback of budgetResult.categories.map
AnalyseCategory(cat, spending) ==
  LET categoryKey == StripSuffix(toLowerCase(cat.name))
      spent == IF categoryKey \in DOMAIN spending THEN spending[categoryKey] ELSE 0
      budget == cat.amount
      remaining == budget - spent
      percentageUsed == PercentageUsed(spent, budget)
  IN  CategorySpending(cat.name, spent, budget, remaining, percentageUsed,
                       Status(percentageUsed))

IsOver(cat) == cat.status = "over"
IsNotUnder(cat) == cat.status # "under"

\* (variant: the categories at their budget are listed too)
OverBudgetCategories_AtToo(categories) ==
  LET hit == SelectSeq(categories, IsNotUnder)
  IN  [i \in 1..Len(hit) |-> hit[i].category]

\* categories.filter(cat => cat.status === 'over').map(cat => cat.category)
OverBudgetCategories(categories) ==
  LET over == SelectSeq(categories, IsOver)
  IN  [i \in 1..Len(over) |-> over[i].category]

calculateCategorySpending(txs, budgetRes) ==
  LET spendingByCategory == SpendingByCategory(txs, Len(txs))
      spentTotal == SumValues(spendingByCategory)
      categories == [i \in 1..Len(budgetRes.categories) |->
                       AnalyseCategory(budgetRes.categories[i], spendingByCategory)]
  IN  SpendingAnalysis(spentTotal, budgetRes.totalAllocated, categories,
                       OverBudgetCategories(categories),
                       PercentageUsed(spentTotal, budgetRes.totalAllocated))

\* GET /api/transactions/analyze: calculateCategorySpending(transactions, budgetResult)
Analyze ==
  /\ calcPc = "calculated"
  /\ analysis' = calculateCategorySpending(transactions, budgetResult)
  /\ calcPc' = "analysed"
  /\ UNCHANGED <<clock, budgets, txns, pc, user, today, streak, lastCheckedDate,
                 income, result, firstOfDay, saveVars, input, budgetResult,
                 transactions>>

\* the stored declarations and transaction lists handed to the analysis
AnalysisInputs ==
  {BudgetInput(1000, Categories(50, 0, 0, 0, 0, 50), <<>>),
   BudgetInput(1000, Categories(0, 0, 0, 0, 0, 0), <<>>),
   BudgetInput(0, Categories(50, 0, 0, 0, 0, 50), <<>>),
   TestBasicInput}
TransactionCategories == {"rent", "Rent", "FOOD", "wants", "Unknown", "Rent/Mortgage"}
TransactionAmounts == {-25, 25, 474, 475, 500}
TransactionInputs ==
  {Transaction(c, a) : c \in TransactionCategories, a \in TransactionAmounts}
TransactionLists == UNION {[1..n -> TransactionInputs] : n \in 0..MaxTxList}

InitAnalyze ==
  /\ clock = 1
  /\ budgets = <<>>
  /\ txns = EmptyBag
  /\ NoChecks
  /\ NoSaves
  /\ calcPc = "none"
  /\ input \in AnalysisInputs
  /\ budgetResult = NoResult
  /\ transactions \in TransactionLists
  /\ analysis = NoAnalysis

NextAnalyze == Calculate \/ Analyze

SpecAnalyze == InitAnalyze /\ [][NextAnalyze]_vars

\* ------------------------------------------- transaction-creating routes
\* the amounts a request body may carry as a number
BodyAmounts == {-1, 0, 1}

\* only the routes that store transactions act
NextTx ==
  \/ \E u \in Users, a \in BodyAmounts, sl \in Slots : AddTransaction(u, a, sl)
  \/ \E u \in Users, a \in AmountInputs \ {0}, d \in 1..clock, sl \in Slots :
       GenerateSample(u, a, d, sl)
  \/ Tick

SpecTx == Init /\ [][NextTx]_vars

\* ---------------------------------------------------------- the daily user
\* u1 opens the dashboard every day and never spends more than one unit, which
\* is within the daily budget of every income; the requests do not fail

\* midnight passes once a check of the day has answered
NextDay ==
  /\ firstOfDay["u1"].day = clock
  /\ Tick

\* the steps of checkAndUpdateStreak and of its route
CheckSteps ==
  \/ \E p \in Procs : Alone(p, "u1") /\ CheckGetBudget(p, "u1")
  \/ \E p \in Procs : CheckBegin(p)
  \/ \E p \in Procs : AdherenceGetBudget(p)
  \/ \E p \in Procs : AdherenceGetTransactions(p)
  \/ \E p \in Procs : UpdateOne(p)
  \/ \E p \in Procs : Respond(p)

NextDaily ==
  \/ CheckSteps
  \/ \E sl \in Slots : AddTransaction("u1", 1, sl)
  \/ NextDay

\* a request that has started is served to its end, and the user comes back
\* after every answer and on every day
SpecDaily == Init /\ [][NextDaily]_vars /\ WF_vars(CheckSteps) /\ WF_vars(NextDay)

\* ---------------------------------------------------- saving while checking
\* u1 has a budget with a StreakState; the dashboard (p1) checks the streak
\* while the budget form (p2) saves new incomes and categories
InitSaveCheck ==
  /\ clock = 1
  /\ budgets = <<BudgetDoc("u1", 30, InitStreak(1))>>
  /\ txns = EmptyBag
  /\ NoChecks
  /\ NoSaves
  /\ NoCalculation

NextSaveCheck ==
  \/ CheckGetBudget("p1", "u1")
  \/ CheckBegin("p1")
  \/ AdherenceGetBudget("p1")
  \/ AdherenceGetTransactions("p1")
  \/ UpdateOne("p1")
  \/ Respond("p1")
  \/ \E inc \in Incomes, cats \in SaveCategories : SaveFindOne("p2", "u1", inc, cats)
  \/ SaveWrite("p2")
  \/ AddTransaction("u1", 2, "day")
  \/ Tick

SpecSaveCheck == InitSaveCheck /\ [][NextSaveCheck]_vars

\* ================================================================ claims
\* the persisted StreakState of a user who has a budget
Persisted(u) == getBudget(u).streak

\* the sum of the amounts of u's transactions inside the adherence query
\* window of day d
DaySpend(u, d) ==
  LET S == {t \in BagToSet(txns) : t.userId = u /\ t.day = d /\ t.slot = "day"}
      sum[T \in SUBSET S] ==
        IF T = {} THEN 0
        ELSE LET t == CHOOSE x \in T : TRUE
             IN  t.amount * CopiesIn(t, txns) + sum[T \ {t}]
  IN  sum[S]

Max(a, b) == IF a >= b THEN a ELSE b

\* request p has answered 200 and is not the first to do so for its calendar day
FurtherCheck(p) ==
  /\ pc[p] = "done"
  /\ result[p].status = 200
  /\ firstOfDay[user[p]].day = today[p]
  /\ firstOfDay[user[p]].persisted

\* C1: for a user whose StreakState is persisted, a check() that follows the
\* first one of the same calendar day answers the StreakState the first one
\* answered and leaves the four persisted fields as the first one left them,
\* whatever transactions were added in between.
C1_SameDayIdempotent ==
  \A p \in Procs :
    FurtherCheck(p) =>
      /\ result[p].streak = firstOfDay[user[p]].streak
      /\ Persisted(user[p]) = firstOfDay[user[p]].streak

\* a further check of day 2, after the first one counted day 1 as adherent and
\* a transaction over the daily budget was then recorded for day 1
C1_Witness ==
  \E p \in Procs :
    /\ FurtherCheck(p)
    /\ today[p] = 2
    /\ result[p].streak.currentStreak = 1
    /\ DaySpend(user[p], 1) * 30 > getBudget(user[p]).monthlyIncome

\* C2: longestStreak >= currentStreak >= 0 in every StreakState, stored, held
\* by a request or answered.
GoodStreak(s) == s.longestStreak >= s.currentStreak /\ s.currentStreak >= 0

C2_LongestAtLeastCurrent ==
  /\ \A i \in 1..Len(budgets) : GoodStreak(budgets[i].streak)
  /\ \A p \in Procs : GoodStreak(streak[p]) /\ GoodStreak(result[p].streak)

\* a stored record whose streak was reset below the personal best
C2_Witness ==
  \E i \in 1..Len(budgets) :
    budgets[i].streak.longestStreak > budgets[i].streak.currentStreak

\* C3: the persisted longestStreak of a user never decreases from one step to
\* the next.
C3_LongestMonotone ==
  [][\A i \in 1..Len(budgets) :
       budgets'[i].streak.longestStreak >= budgets[i].streak.longestStreak]_vars

\* a personal best that outlived a reset and a month boundary
C3_Witness ==
  \E i \in 1..Len(budgets) :
    /\ budgets[i].streak.longestStreak >= 1
    /\ budgets[i].streak.currentStreak = 0
    /\ budgets[i].streak.monthlyResetDate > 1

\* C4: on the first check() of a new day, when yesterday's spend is at most
\* monthlyIncome / 30 (equality included), the request's currentStreak becomes
\* the persisted one plus 1 and its longestStreak the larger of the persisted
\* longestStreak and that value, whatever the gap since lastChecked; the update
\* then stores that record and the route answers it.
C4_Adherent(p) ==
  (/\ pc[p] = "adherenceTx" /\ pc'[p] = "update"
   /\ DaySpend(user[p], today[p] - 1) * 30 <= getBudget(user[p]).monthlyIncome)
  => /\ today[p] > Persisted(user[p]).lastChecked
     /\ streak'[p].currentStreak = Persisted(user[p]).currentStreak + 1
     /\ streak'[p].longestStreak =
          Max(Persisted(user[p]).longestStreak, Persisted(user[p]).currentStreak + 1)

C4_Stored(p) ==
  (pc[p] = "update" /\ pc'[p] = "done" /\ result'[p].status = 200)
  => /\ Persisted(user[p])' = streak[p]
     /\ result'[p].streak = streak[p]

C5_OncePerDay ==
  [][\A p \in Procs :
       (pc[p] = "update" /\ pc'[p] = "done" /\ budgets' # budgets)
       => Persisted(user[p]).lastChecked < today[p]]_vars

\* C6: once check() has answered for a user who has a budget, the user's
\* stored record holds a StreakState.
C6_InitPersisted ==
  \A p \in Procs :
    (pc[p] = "done" /\ result[p].status = 200) => Persisted(user[p]).has

\* C7: check() for a user without a stored budget answers the error
\* 'Budget not found' and no StreakState, and changes neither store.
C7_Missing(p) ==
  (pc[p] = "idle" /\ pc'[p] # "idle" /\ FindOne(budgets, user'[p]) = 0)
  => /\ pc'[p] = "done"
     /\ result'[p].status = 500
     /\ result'[p].details = "Budget not found"
     /\ ~result'[p].streak.has
     /\ budgets' = budgets /\ txns' = txns

C7_Answered(p) ==
  (pc[p] = "done" /\ result[p].details = "Budget not found" /\ pc'[p] # "done")
  => budgets' = budgets /\ txns' = txns

C7_BudgetNotFound == [][\A p \in Procs : C7_Missing(p) /\ C7_Answered(p)]_vars

C7_Witness ==
  \E p \in Procs :
    /\ pc[p] = "done" /\ result[p].details = "Budget not found"
    /\ ~getBudgetFound(user[p])

\* C8: when the update of the new-day transition fails, the stored
\* StreakState is the one from before the call, all four fields, and the
\* route answers an error.
C8_FailedUpdate ==
  [][\A p \in Procs :
       (pc[p] = "update" /\ pc'[p] = "done" /\ Persisted(user[p])' # streak[p])
       => /\ Persisted(user[p])' = Persisted(user[p])
          /\ result'[p].status = 500
          /\ ~result'[p].streak.has]_vars

\* a failed update of a transition that would have changed the record
C8_Witness ==
  \E p \in Procs :
    /\ pc[p] = "done" /\ result[p].details = "update failed"
    /\ Persisted(user[p]).has
    /\ Persisted(user[p]).lastChecked < today[p]

\* C9: a check() that crosses a month boundary answers monthlyResetDate =
\* firstOfMonth(now) (and stores it when it stores anything), while
\* currentStreak and longestStreak are what the day boundary alone gives:
\* increment, reset after a gap, or no change.
C9_DayOutcome(old, new, t) ==
  IF t > old.lastChecked
  THEN \/ /\ new.currentStreak = old.currentStreak + 1
          /\ new.longestStreak = Max(old.longestStreak, old.currentStreak + 1)
       \/ /\ old.lastChecked < t - 1
          /\ new.currentStreak = 0
          /\ new.longestStreak = old.longestStreak
       \/ /\ old.lastChecked = t - 1
          /\ new.currentStreak = old.currentStreak
          /\ new.longestStreak = old.longestStreak
  ELSE /\ new.currentStreak = old.currentStreak
       /\ new.longestStreak = old.longestStreak

C9_Crossing(p) ==
  (/\ pc[p] \in {"begin", "update"} /\ pc'[p] = "done" /\ result'[p].status = 200
   /\ Persisted(user[p]).has
   /\ FirstOfMonth(today'[p]) > Persisted(user[p]).monthlyResetDate)
  => /\ result'[p].streak.monthlyResetDate = FirstOfMonth(today'[p])
     /\ C9_DayOutcome(Persisted(user[p]), result'[p].streak, today'[p])
     /\ pc[p] = "update" => Persisted(user[p])' = result'[p].streak

C9_MonthOnlyMarker == [][\A p \in Procs : C9_Crossing(p)]_vars

\* a streak of two that was carried over the boundary of the second month
C9_Witness ==
  \E p \in Procs :
    /\ pc[p] = "done" /\ result[p].status = 200
    /\ result[p].streak.monthlyResetDate > 1
    /\ result[p].streak.monthlyResetDate = result[p].streak.lastChecked
    /\ result[p].streak.currentStreak >= 2

\* C10: whenever the first check() of a new day finds yesterday's spend above
\* monthlyIncome / 30, the request's currentStreak is 0 afterwards.
C10_OverspendResets ==
  [][\A p \in Procs :
       (/\ pc[p] = "adherenceTx" /\ pc'[p] = "update"
        /\ DaySpend(user[p], today[p] - 1) * 30 > getBudget(user[p]).monthlyIncome)
       => streak'[p].currentStreak = 0]_vars

\* the documents of user u in a budgets collection, and u's transactions
DocsOf(coll, u) == LET Mine(d) == d.userId = u IN SelectSeq(coll, Mine)
TxOf(bag, u) == [t \in {x \in BagToSet(bag) : x.userId = u} |-> bag[t]]

\* C11: a step of a check() for user A changes no budget document and no
\* transaction of another user, and what it reads and decides is given by A's
\* own document and A's own transactions of yesterday.
C11_Frame(p, a) ==
  \A b \in Users \ {a} :
    /\ DocsOf(budgets', b) = DocsOf(budgets, b)
    /\ TxOf(txns', b) = TxOf(txns, b)

C11_Outcome(p, a) ==
  /\ (pc[p] = "idle" /\ pc'[p] = "begin") => streak'[p] = DocsOf(budgets, a)[1].streak
  /\ (pc[p] = "adherenceBudget" /\ pc'[p] = "adherenceTx")
       => income'[p] = DocsOf(budgets, a)[1].monthlyIncome
  /\ (pc[p] = "adherenceTx" /\ pc'[p] = "update")
       => (streak'[p].currentStreak = streak[p].currentStreak + 1
             <=> DaySpend(a, today[p] - 1) * 30 <= income[p])
  /\ (pc[p] = "update" /\ pc'[p] = "done" /\ result'[p].status = 200)
       => /\ result'[p].streak = streak[p]
          /\ DocsOf(budgets', a)[1].streak = streak[p]

C11_UsersIndependent ==
  [][\A p \in Procs :
       pc'[p] # pc[p] =>
         LET a == IF pc[p] = "idle" THEN user'[p] ELSE user[p]
         IN  C11_Frame(p, a) /\ C11_Outcome(p, a)]_vars

\* a day of user A counted as adherent although the other user spent more
\* than A's daily budget on it
C11_Witness ==
  \E p \in Procs :
    /\ pc[p] = "done" /\ result[p].status = 200
    /\ result[p].streak.currentStreak = 1
    /\ \E b \in Users \ {user[p]} :
         /\ getBudgetFound(b)
         /\ DaySpend(b, today[p] - 1) * 30 > getBudget(user[p]).monthlyIncome

\* C12: once a saveBudget call for a user has returned, the budgets store
\* holds exactly one record for that user, and while no call for the user is
\* under way it holds the income and categories of the call that returned
\* last.
SaveUnderWay(u) == \E p \in Procs : savePc[p] # "idle" /\ docForWrite[p].userId = u

C12_HoldsLastSave(u) ==
  \A i \in 1..Len(DocsOf(budgets, u)) :
    /\ DocsOf(budgets, u)[i].monthlyIncome = lastSaved[u].monthlyIncome
    /\ DocsOf(budgets, u)[i].categories = lastSaved[u].categories

C12_OneRecordPerUser ==
  \A u \in Users :
    lastSaved[u] # NoDeclaration =>
      /\ Len(DocsOf(budgets, u)) = 1
      /\ ~SaveUnderWay(u) => C12_HoldsLastSave(u)

\* the percentages of a declaration, its subcategories and their sum
Percentages(in) == {in.categories[CategoryKeys[i]] : i \in 1..6}
Subs(in) == {in.wantsSubcategories[i] : i \in 1..Len(in.wantsSubcategories)}
SubSum(in) ==
  LET sum[i \in 0..Len(in.wantsSubcategories)] ==
        IF i = 0 THEN 0 ELSE sum[i - 1] + in.wantsSubcategories[i].percentage
  IN  sum[Len(in.wantsSubcategories)]
CategorySum(in) ==
  in.categories.rent + in.categories.food + in.categories.bills
    + in.categories.savings + in.categories.investments + in.categories.wants

Errors == {budgetResult.errors[i] : i \in 1..Len(budgetResult.errors)}

\* the messages whose text contains "100%"
Mentions100(m) ==
  m.text \in {"Total percentage ({n}%) exceeds 100%",
              "{key} percentage cannot exceed 100%",
              "Wants subcategories total ({n}%) exceeds 100%",
              "Subcategory \"{name}\" percentage exceeds 100%"}

\* C13: for a declaration whose six category percentages sum to more than
\* 100, calculateBudget returns isValid = false and an errors list with a
\* message mentioning "100%".
C13_SumOver100 ==
  (calcPc = "calculated" /\ CategorySum(input) > 100)
  => /\ ~budgetResult.isValid
     /\ \E m \in Errors : Mentions100(m)

\* a sum over 100 made of percentages that are each within 0..100, with a
\* positive income and no subcategories
C13_Witness ==
  /\ calcPc = "calculated"
  /\ CategorySum(input) > 100
  /\ \A v \in Percentages(input) : v >= 0 /\ v <= 100
  /\ input.monthlyIncome > 0
  /\ input.wantsSubcategories = <<>>
  /\ Len(budgetResult.errors) = 1

\* C14: when a validation rule is violated, calculateBudget returns isValid =
\* false, no categories, totalAllocated = 0 and unallocated = 0; and it
\* returns isValid = true only when no rule is violated.
RuleViolated(in) ==
  \/ in.monthlyIncome <= 0
  \/ \E v \in Percentages(in) : v < 0 \/ v > 100
  \/ CategorySum(in) > 100
  \/ \E sub \in Subs(in) : sub.percentage < 0 \/ sub.percentage > 100 \/ sub.name = ""
  \/ SubSum(in) > 100

C14_InvalidIsEmpty ==
  calcPc = "calculated"
  => /\ RuleViolated(input)
          => /\ ~budgetResult.isValid
             /\ budgetResult.categories = <<>>
             /\ budgetResult.totalAllocated = 0
             /\ budgetResult.unallocated = 0
     /\ budgetResult.isValid => ~RuleViolated(input)

\* a declaration that is in order but for two named subcategories, each
\* within 0..100, that sum to more than 100
C14_Witness ==
  /\ calcPc = "calculated"
  /\ ~budgetResult.isValid
  /\ input.monthlyIncome > 0
  /\ CategorySum(input) = 100
  /\ \A v \in Percentages(input) : v >= 0 /\ v <= 100
  /\ \A sub \in Subs(input) : sub.percentage >= 0 /\ sub.percentage <= 100 /\ sub.name # ""
  /\ SubSum(input) > 100
  /\ budgetResult.categories = <<>>

\* C15: calculateBudget always returns a BudgetResult, and its errors list
\* holds a message for every violated rule: the income, each category below 0,
\* each category above 100, the category sum, each subcategory below 0, each
\* subcategory above 100, each subcategory without a name, the subcategory sum.
C15_CategoryMessages ==
  \A i \in 1..6 :
    LET key == CategoryKeys[i]
    IN  /\ input.categories[key] < 0
             => \E m \in Errors :
                  m.text = "{key} percentage cannot be negative" /\ m.subject = key
        /\ input.categories[key] > 100
             => \E m \in Errors :
                  m.text = "{key} percentage cannot exceed 100%" /\ m.subject = key

C15_SubcategoryMessages ==
  \A j \in 1..Len(input.wantsSubcategories) :
    LET sub == input.wantsSubcategories[j]
    IN  /\ sub.percentage < 0
             => \E m \in Errors :
                  /\ m.text = "Subcategory \"{name}\" has negative percentage"
                  /\ m.subject = sub.name
        /\ sub.percentage > 100
             => \E m \in Errors :
                  /\ m.text = "Subcategory \"{name}\" percentage exceeds 100%"
                  /\ m.subject = sub.name
        /\ sub.name = ""
             => \E m \in Errors :
                  m.text = "Subcategory at index {n} has no name" /\ m.number = j - 1

C15_ErrorsCollected ==
  calcPc = "calculated"
  => /\ budgetResult # NoResult
     /\ budgetResult.isValid <=> Errors = {}
     /\ input.monthlyIncome <= 0
          => \E m \in Errors : m.text = "Monthly income must be greater than 0"
     /\ CategorySum(input) > 100
          => \E m \in Errors :
               /\ m.text = "Total percentage ({n}%) exceeds 100%"
               /\ m.number = CategorySum(input)
     /\ C15_CategoryMessages
     /\ SubSum(input) > 100
          => \E m \in Errors :
               /\ m.text = "Wants subcategories total ({n}%) exceeds 100%"
               /\ m.number = SubSum(input)
     /\ C15_SubcategoryMessages

\* an income of 0 or less, a negative category, a category sum over 100 and a
\* subcategory over 100 in one declaration, answered with all their messages
C15_Witness ==
  /\ calcPc = "calculated"
  /\ input.monthlyIncome <= 0
  /\ \E v \in Percentages(input) : v < 0
  /\ CategorySum(input) > 100
  /\ \E sub \in Subs(input) : sub.percentage > 100
  /\ Len(budgetResult.errors) >= 5

\* a declaration was found valid and its amounts were returned
ValidResult == calcPc = "calculated" /\ budgetResult.isValid

Abs(x) == IF x >= 0 THEN x ELSE -x

\* C16: for a valid declaration totalAllocated is the sum of the six category
\* amounts, totalAllocated + unallocated is within six cents (one per
\* category) of monthlyIncome, and unallocated lies between minus six cents
\* and monthlyIncome.
C16_TotalsAddUp ==
  ValidResult
  => /\ Len(budgetResult.categories) = 6
     /\ budgetResult.totalAllocated =
          budgetResult.categories[1].amount + budgetResult.categories[2].amount
            + budgetResult.categories[3].amount + budgetResult.categories[4].amount
            + budgetResult.categories[5].amount + budgetResult.categories[6].amount
     /\ Abs(budgetResult.totalAllocated + budgetResult.unallocated
              - input.monthlyIncome) <= 6
     /\ budgetResult.unallocated >= -6
     /\ budgetResult.unallocated <= input.monthlyIncome

\* two halves of 1.05, each rounded up to 0.53: one cent more is allocated
\* than is earned
C16_Witness ==
  /\ ValidResult
  /\ budgetResult.unallocated < 0
  /\ budgetResult.totalAllocated > input.monthlyIncome

\* C17: for a valid declaration calculateBudget returns six categories, in
\* the order rent, food, bills, savings, investments, wants, each with the
\* declared percentage and the amount income x percentage / 100 rounded to
\* the nearest cent (at most half a cent away); 5000.00 with 30/15/10/20/10/15 gives
\* rent 1500.00, wants 750.00, totalAllocated 5000.00 and unallocated 0.00.
C17_Rounded(amount, inc, pct) ==
  /\ 100 * amount - inc * pct <= 50
  /\ 100 * amount - inc * pct >= -50

C17_SixCategories ==
  /\ ValidResult
       => /\ Len(budgetResult.categories) = 6
          /\ \A i \in 1..6 :
               /\ budgetResult.categories[i].name =
                    <<"Rent/Mortgage", "Food", "Bills", "Savings", "Investments",
                      "Wants">>[i]
               /\ budgetResult.categories[i].percentage =
                    input.categories[CategoryKeys[i]]
               /\ C17_Rounded(budgetResult.categories[i].amount, input.monthlyIncome,
                              input.categories[CategoryKeys[i]])
  /\ (calcPc = "calculated" /\ input.monthlyIncome = 500000
        /\ input.categories = Categories(30, 15, 10, 20, 10, 15))
       => /\ budgetResult.isValid
          /\ budgetResult.categories[1].amount = 150000
          /\ budgetResult.categories[6].amount = 75000
          /\ budgetResult.totalAllocated = 500000
          /\ budgetResult.unallocated = 0

\* the declaration of the basic test, calculated
C17_Witness ==
  /\ ValidResult
  /\ input.monthlyIncome = 500000
  /\ input.categories.rent = 30
  /\ budgetResult.categories[1].amount = 150000

\* the analysis of a transaction list against a valid allocation
AnalysedValid == calcPc = "analysed" /\ budgetResult.isValid

\* the sum of the amounts of the transactions that satisfy Picked(t)
SumWhere(txs, Picked(_)) ==
  LET sum[i \in 0..Len(txs)] ==
        IF i = 0 THEN 0
        ELSE sum[i - 1] + (IF Picked(txs[i]) THEN txs[i].amount ELSE 0)
  IN  sum[Len(txs)]

SixKeys == {"rent", "food", "bills", "savings", "investments", "wants"}
Unclassified(t) == toLowerCase(t.category) \notin SixKeys
WantsOrUnclassified(t) == toLowerCase(t.category) = "wants" \/ Unclassified(t)
AnyTransaction(t) == TRUE

\* C18: in the analysis against a valid allocation, the spent of the wants
\* category is the sum of the transactions whose lower-cased category is
\* wants or none of the six keys, totalSpent is the sum of all transaction
\* amounts, and the spent of the six reported categories add up to totalSpent.
C18_UnclassifiedToWants ==
  AnalysedValid
  => /\ Len(analysis.categories) = 6
     /\ analysis.categories[6].category = "Wants"
     /\ analysis.categories[6].spent = SumWhere(transactions, WantsOrUnclassified)
     /\ analysis.totalSpent = SumWhere(transactions, AnyTransaction)
     /\ analysis.categories[1].spent + analysis.categories[2].spent
          + analysis.categories[3].spent + analysis.categories[4].spent
          + analysis.categories[5].spent + analysis.categories[6].spent
          = analysis.totalSpent

\* a transaction of category "Unknown" next to one of category wants, both
\* counted in the spent of Wants
C18_Witness ==
  /\ AnalysedValid
  /\ \E i, j \in 1..Len(transactions) :
       /\ transactions[i].category = "Unknown" /\ transactions[i].amount > 0
       /\ transactions[j].category = "wants" /\ transactions[j].amount > 0
  /\ analysis.categories[6].spent = analysis.totalSpent
  /\ analysis.totalSpent > 0

\* C19: every reported category has one of the three statuses, and with a
\* budget above 0 it is over iff spent >= budget, at iff 95% of the budget <=
\* spent < budget, and under iff spent < 95% of the budget.
C19_StatusBands ==
  calcPc = "analysed"
  => \A i \in 1..Len(analysis.categories) :
       LET cat == analysis.categories[i]
       IN  /\ cat.status \in {"over", "at", "under"}
           /\ cat.budget > 0
                => /\ cat.status = "over" <=> cat.spent >= cat.budget
                   /\ cat.status = "at"
                        <=> (95 * cat.budget <= 100 * cat.spent /\ cat.spent < cat.budget)
                   /\ cat.status = "under" <=> 100 * cat.spent < 95 * cat.budget

\* one category spent exactly to its budget (over) and another exactly to
\* 95% of it (at)
C19_Witness ==
  /\ calcPc = "analysed"
  /\ \E i, j \in 1..Len(analysis.categories) :
       /\ analysis.categories[i].budget > 0
       /\ analysis.categories[i].spent = analysis.categories[i].budget
       /\ analysis.categories[i].status = "over"
       /\ analysis.categories[j].budget > 0
       /\ 100 * analysis.categories[j].spent = 95 * analysis.categories[j].budget
       /\ analysis.categories[j].status = "at"

\* C20: overBudgetCategories lists the names of the reported categories whose
\* status is over, each once and in their order; the reported categories
\* follow budgetResult.categories one to one, with budget the allocated amount
\* and remaining = budget - spent.
C20_OverNames(cats) ==
  LET names[i \in 0..Len(cats)] ==
        IF i = 0 THEN <<>>
        ELSE IF cats[i].status = "over" THEN Append(names[i - 1], cats[i].category)
             ELSE names[i - 1]
  IN  names[Len(cats)]

C20_OverBudgetList ==
  calcPc = "analysed"
  => /\ analysis.overBudgetCategories = C20_OverNames(analysis.categories)
     /\ Len(analysis.categories) = Len(budgetResult.categories)
     /\ \A i \in 1..Len(analysis.categories) :
          /\ analysis.categories[i].category = budgetResult.categories[i].name
          /\ analysis.categories[i].budget = budgetResult.categories[i].amount
          /\ analysis.categories[i].remaining =
               analysis.categories[i].budget - analysis.categories[i].spent

\* rent and wants are over, food (at 0 of a budget of 0) is between them
C20_Witness ==
  /\ calcPc = "analysed"
  /\ analysis.overBudgetCategories = <<"Rent/Mortgage", "Wants">>
  /\ analysis.categories[1].remaining <= 0
  /\ analysis.categories[2].status = "under"

\* C21: analysing an empty transaction list against a valid BudgetResult
\* gives totalSpent = 0, for every category spent = 0, status under and
\* remaining = budget, percentageOfBudgetUsed = 0 and no over-budget category.
C21_EmptyList ==
  (AnalysedValid /\ transactions = <<>>)
  => /\ analysis.totalSpent = 0
     /\ Len(analysis.categories) = 6
     /\ \A i \in 1..Len(analysis.categories) :
          /\ analysis.categories[i].spent = 0
          /\ analysis.categories[i].status = "under"
          /\ analysis.categories[i].remaining = budgetResult.categories[i].amount
     /\ analysis.percentageOfBudgetUsed.num = 0
     /\ analysis.overBudgetCategories = <<>>

\* the empty list analysed against an allocation that has a category with a
\* budget of 0 and one with a budget above 0
C21_Witness ==
  /\ AnalysedValid
  /\ transactions = <<>>
  /\ analysis.categories[1].remaining > 0
  /\ analysis.categories[2].remaining = 0

\* C22: every transaction in the store has an amount above 0.
C22_PositiveAmounts == \A t \in BagToSet(txns) : t.amount > 0

\* request p is about to decide a day on which the spend inside the query
\* window was above monthlyIncome / 30
Overspent(p) ==
  /\ pc[p] = "adherenceTx" /\ pc'[p] = "update"
  /\ DaySpend(user[p], today[p] - 1) * 30 > getBudget(user[p]).monthlyIncome

C25_ConsecutiveAdherentDays ==
  [][\A p \in Procs :
       (/\ pc[p] = "adherenceTx" /\ pc'[p] = "update"
        /\ streak'[p].currentStreak > 0)
       => /\ DaySpend(user[p], today[p] - 1) * 30 <= getBudget(user[p]).monthlyIncome
          /\ streak'[p].currentStreak > 1
               => Persisted(user[p]).lastChecked = today[p] - 1]_vars

\* the declaration of the last calculation with its subcategories taken away
WithoutSubcategories == [input EXCEPT !.wantsSubcategories = <<>>]

\* C26: for a valid declaration the wants category carries one subcategory
\* per supplied subcategory (none when none is supplied), each with the
\* supplied name and percentage and the amount wantsAmount x percentage / 100
\* rounded to the nearest cent, wantsAmount being the rounded wants amount;
\* totalAllocated, unallocated and the six amounts are those of the same
\* declaration without subcategories.
C26_Subcategories ==
  ValidResult
  => LET wants == budgetResult.categories[6]
         plain == calculateBudget(WithoutSubcategories)
     IN  /\ wants.name = "Wants"
         /\ Len(wants.subcategories) = Len(input.wantsSubcategories)
         /\ \A i \in 1..Len(wants.subcategories) :
              /\ wants.subcategories[i].name = input.wantsSubcategories[i].name
              /\ wants.subcategories[i].percentage = input.wantsSubcategories[i].percentage
              /\ Abs(100 * wants.subcategories[i].amount
                       - wants.amount * input.wantsSubcategories[i].percentage) <= 50
         /\ plain.isValid
         /\ budgetResult.totalAllocated = plain.totalAllocated
         /\ budgetResult.unallocated = plain.unallocated
         /\ \A i \in 1..6 : budgetResult.categories[i].amount = plain.categories[i].amount
         /\ plain.categories[6].subcategories = <<>>

\* 60% of the rounded wants amount 0.53 is 0.318, rounded to 0.32; 60% of the
\* exact 0.525 would be 0.315
C26_Witness ==
  /\ ValidResult
  /\ Len(budgetResult.categories[6].subcategories) >= 1
  /\ (input.monthlyIncome * input.categories.wants) % 100 # 0
  /\ (budgetResult.categories[6].amount * input.wantsSubcategories[1].percentage) % 100 # 0
  /\ budgetResult.categories[6].subcategories[1].amount > 0
  /\ budgetResult.totalAllocated
       = SumCategoryAmounts(budgetResult.categories, 1)

\* the value of a quotient is zero
IsZero(q) == q.num = 0 /\ q.den > 0

\* the names listed in overBudgetCategories
C27_OverNames ==
  {analysis.overBudgetCategories[i] : i \in 1..Len(analysis.overBudgetCategories)}

\* C27: every analysis gives one entry per allocated category with a defined
\* percentageUsed; a category whose budget is 0 has percentageUsed 0 and
\* status under whatever was spent, and is not listed as over budget; when
\* totalAllocated is 0, percentageOfBudgetUsed is 0.
C27_ZeroBudgets ==
  calcPc = "analysed"
  => /\ Len(analysis.categories) = Len(budgetResult.categories)
     /\ analysis.percentageOfBudgetUsed.den > 0
     /\ \A i \in 1..Len(analysis.categories) :
          LET cat == analysis.categories[i]
          IN  /\ cat.percentageUsed.den > 0
              /\ cat.budget = 0
                   => /\ IsZero(cat.percentageUsed)
                      /\ cat.status = "under"
                      /\ cat.category \notin C27_OverNames
     /\ budgetResult.totalAllocated = 0 => IsZero(analysis.percentageOfBudgetUsed)

\* money was spent in a category with budget 0 of an allocation of 0 in all
C27_Witness ==
  /\ AnalysedValid
  /\ budgetResult.totalAllocated = 0
  /\ analysis.totalSpent > 0
  /\ \E i \in 1..Len(analysis.categories) :
       /\ analysis.categories[i].budget = 0
       /\ analysis.categories[i].spent > 0
       /\ analysis.categories[i].status = "under"

\* a check has returned or stored a currentStreak above 0 for u1
C28_Progressed ==
  \/ Persisted("u1").currentStreak > 0
  \/ \E p \in Procs : /\ pc[p] = "done" /\ result[p].status = 200
                      /\ result[p].streak.currentStreak > 0

\* C28: for a user who has a budget and at first no StreakState, who checks
\* every day and stays within the daily budget, currentStreak eventually is
\* above 0.
C28_FreshProgress == (~Persisted("u1").has) => <>C28_Progressed

\* the same for a user whose record already holds a StreakState
C28_StoredProgress == Persisted("u1").has => <>C28_Progressed

\* C29: the write of saveBudget over an existing record leaves the persisted
\* StreakState of every user as it was, whatever a check of the same user is
\* doing at that moment, and puts the saved income and categories in place.
C29_SaveKeepsStreak ==
  [][\A p \in Procs :
       (savePc[p] = "write" /\ savePc'[p] = "idle" /\ existingBudget[p])
       => /\ Len(budgets') = Len(budgets)
          /\ \A i \in 1..Len(budgets) : budgets'[i].streak = budgets[i].streak
          /\ getBudgetFound(docForWrite[p].userId)
               => LET doc == budgets'[FindOne(budgets', docForWrite[p].userId)]
                  IN  /\ doc.monthlyIncome = docForWrite[p].monthlyIncome
                      /\ doc.categories = docForWrite[p].categories]_vars

\* a save has put another income and other categories under a streak of 1
\* while a check of the same user is about to store its result
C29_Witness ==
  /\ getBudgetFound("u1")
  /\ lastSaved["u1"].userId = "u1"
  /\ savePc["p2"] = "idle"
  /\ getBudget("u1").monthlyIncome = 60
  /\ getBudget("u1").categories = Categories(50, 0, 0, 0, 0, 50)
  /\ Persisted("u1").has /\ Persisted("u1").currentStreak >= 1
  /\ pc["p1"] = "update" /\ user["p1"] = "u1"

\* C30: no step moves the persisted lastChecked of a user backwards, and it
\* is never later than the day of the clock.
C30_LastCheckedMonotonic ==
  [][\A u \in Users :
       (getBudgetFound(u) /\ Persisted(u).has)
       => LET after == budgets'[FindOne(budgets', u)].streak
          IN  /\ after.has
              /\ after.lastChecked >= Persisted(u).lastChecked
              /\ after.lastChecked <= clock']_vars

====
